---- MODULE Spec2Model ----
(***************************************************************************)
(* Browser-side glue of the reselling-profitability admin tool:            *)
(*   static/common.js           auth client, session/token, access code    *)
(*   static/admin.js (part_000) admin page: settings, categories, items    *)
(*   static/admin_dashboard.js  dashboard page: settings, items            *)
(* The profitability engine behind POST /api/admin/items is not part of    *)
(* the client sources; it is modelled from the written specification.      *)
(***************************************************************************)
EXTENDS Integers, Sequences, FiniteSets, Bags, TLC

(***************************************************************************)
(* Bounds of the model.                                                    *)
(***************************************************************************)
\* longest text a user types into a price field
MaxLen == 2
\* handler invocations that may be in flight at the same time
MaxInFlight == 2
\* items the server holds before the "add" button is no longer pressed
MaxItems == 1
\* concurrent callers of getSupabase
MaxCallers == 3

(***************************************************************************)
(* Text.  A string is a sequence of one-character strings.                 *)
(***************************************************************************)
Digits == <<"0", "1", "2", "3", "4", "5", "6", "7", "8", "9">>

IsDigit(c) == \E i \in 1..10 : Digits[i] = c

DigitVal(c) == (CHOOSE i \in 1..10 : Digits[i] = c) - 1

IsSpace(c) == c = " "

\* characters a user types into the price fields
Chars == {"2", "9", "-", "a"}

RECURSIVE SeqsUpTo(_, _)
SeqsUpTo(S, n) ==
    IF n = 0 THEN {<<>>}
    ELSE LET shorter == SeqsUpTo(S, n - 1)
         IN  shorter \cup {Append(s, c) : s \in {t \in shorter : Len(t) = n - 1}, c \in S}

RawInputs == SeqsUpTo(Chars, MaxLen)

\* texts tried in the shipping field: empty, numbers, signs, letters
ShippingInputs == SeqsUpTo(Chars \ {"9"}, MaxLen)

\* String.prototype.trim
RECURSIVE TrimLeft(_)
TrimLeft(s) == IF s # <<>> /\ IsSpace(Head(s)) THEN TrimLeft(Tail(s)) ELSE s

RECURSIVE TrimRight(_)
TrimRight(s) ==
    IF s # <<>> /\ IsSpace(s[Len(s)]) THEN TrimRight(SubSeq(s, 1, Len(s) - 1)) ELSE s

trim(s) == TrimRight(TrimLeft(s))

(***************************************************************************)
(* JavaScript numbers: NaN, or the rational n/d in lowest terms (d > 0).   *)
(* JSON carries a number, or null where the number was NaN.                *)
(***************************************************************************)
NaN == [tag |-> "nan", n |-> 0, d |-> 1]

Null == [tag |-> "null", n |-> 0, d |-> 1]

Abs(x) == IF x < 0 THEN -x ELSE x

RECURSIVE Gcd(_, _)
Gcd(a, b) == IF b = 0 THEN a ELSE Gcd(b, a % b)

Rat(n, d) ==
    LET g == Gcd(Abs(n), d)
    IN  [tag |-> "num", n |-> n \div g, d |-> d \div g]

Num(k) == [tag |-> "num", n |-> k, d |-> 1]

IsNum(x) == x.tag = "num"

IsInt(x) == x.tag = "num" /\ x.d = 1

\* the longest prefix of digits of s
RECURSIVE DigitPrefix(_)
DigitPrefix(s) ==
    IF s # <<>> /\ IsDigit(Head(s)) THEN <<Head(s)>> \o DigitPrefix(Tail(s)) ELSE <<>>

RECURSIVE DigitsValue(_)
DigitsValue(ds) ==
    IF ds = <<>> THEN 0
    ELSE 10 * DigitsValue(SubSeq(ds, 1, Len(ds) - 1)) + DigitVal(ds[Len(ds)])

RECURSIVE Pow10(_)
Pow10(k) == IF k = 0 THEN 1 ELSE 10 * Pow10(k - 1)

\* parseInt(s): leading white space, an optional sign, then decimal digits;
\* whatever follows the digits is ignored, and no digit at all gives NaN.
parseInt(s) ==
    LET t    == TrimLeft(s)
        neg  == t # <<>> /\ Head(t) = "-"
        sgn  == t # <<>> /\ Head(t) \in {"-", "+"}
        body == IF sgn THEN Tail(t) ELSE t
        ds   == DigitPrefix(body)
    IN  IF ds = <<>> THEN NaN
        ELSE Num(IF neg THEN -DigitsValue(ds) ELSE DigitsValue(ds))

\* parseFloat(s): as parseInt, with an optional fraction after a point.
parseFloat(s) ==
    LET t    == TrimLeft(s)
        neg  == t # <<>> /\ Head(t) = "-"
        sgn  == t # <<>> /\ Head(t) \in {"-", "+"}
        body == IF sgn THEN Tail(t) ELSE t
        ip   == DigitPrefix(body)
        rest == SubSeq(body, Len(ip) + 1, Len(body))
        fp   == IF rest # <<>> /\ Head(rest) = "." THEN DigitPrefix(Tail(rest)) ELSE <<>>
        mag  == DigitsValue(ip) * Pow10(Len(fp)) + DigitsValue(fp)
    IN  IF ip = <<>> /\ fp = <<>> THEN NaN
        ELSE Rat(IF neg THEN -mag ELSE mag, Pow10(Len(fp)))

\* decimal digits of a natural number
RECURSIVE NatToStr(_)
NatToStr(k) ==
    IF k < 10 THEN <<Digits[k + 1]>>
    ELSE NatToStr(k \div 10) \o <<Digits[(k % 10) + 1]>>

\* digits of the fraction r/d (0 <= r < d, d a divisor of a power of ten)
RECURSIVE FracToStr(_, _)
FracToStr(r, d) ==
    IF r = 0 THEN <<>>
    ELSE <<Digits[((10 * r) \div d) + 1]>> \o FracToStr((10 * r) % d, d)

\* String(x) of a number, as an input element's value is assigned
NumToStr(x) ==
    IF ~IsNum(x) THEN IF x.tag = "nan" THEN <<"N", "a", "N">> ELSE <<>>
    ELSE LET m    == Abs(x.n)
             body == NatToStr(m \div x.d)
                     \o (IF m % x.d = 0 THEN <<>> ELSE <<".">> \o FracToStr(m % x.d, x.d))
         IN  IF x.n < 0 THEN <<"-">> \o body ELSE body

\* JSON.stringify of a number: NaN is written as null
JsonNumber(x) == IF IsNum(x) THEN x ELSE Null

\* a || b on strings: the empty string is falsy
OrElse(s, dflt) == IF s = <<>> THEN dflt ELSE s

(***************************************************************************)
(* The server's profitability engine behind /api/admin/items.  Its code is *)
(* not among the client sources; it follows the specification, sections    *)
(* 4.1 to 4.4.  Money is counted in whole currency units.                   *)
(***************************************************************************)
\* VAT on the commission: ten percent
VatRate == Rat(1, 10)

\* round(a / d) for a >= 0, d > 0, ties upwards
RoundHalfUp(a, d) == (2 * a + d) \div (2 * d)

\* round(k * r) for an integer k >= 0 and a rate r >= 0
RoundTimes(k, r) == RoundHalfUp(k * r.n, r.d)

InRate(r) == IsNum(r) /\ r.n >= 0 /\ r.n < r.d

\* the fee resolver: commission rate of a market and category, with the
\* resolver's own fallback for a pair it does not know
resolveCommissionRate(market, category) ==
    CASE market = "m1" /\ category = "c1" -> Rat(1, 2)
      [] market = "m1" /\ category = "c2" -> Rat(1, 4)
      [] market = "m2" /\ category = "c3" -> Rat(1, 10)
      [] OTHER -> Rat(1, 5)

\* a required price: a non-negative integer
ValidPrice(x) == IsInt(x) /\ x.n >= 0

TaxTypes == {"taxed", "exempt"}

\* section 4.1: the request is rejected, or its prices come out as
\* non-negative integers.  Market and category are required, so a request
\* without a category, as admin_dashboard.js sends it, is rejected.
InvalidInput(p) ==
    \/ ~ValidPrice(p.buy_price)
    \/ ~ValidPrice(p.sell_price)
    \/ (IsNum(p.shipping_fee) /\ ~ValidPrice(p.shipping_fee))
    \/ p.market = ""
    \/ p.category = ""
    \/ p.tax_type \notin TaxTypes \cup {""}

Normalize(p) ==
    [buy_price    |-> p.buy_price.n,
     sell_price   |-> p.sell_price.n,
     shipping_fee |-> IF IsNum(p.shipping_fee) THEN p.shipping_fee.n ELSE 0,
     market       |-> p.market,
     category     |-> p.category,
     tax_type     |-> IF p.tax_type = "" THEN "taxed" ELSE p.tax_type,
     url          |-> p.url,
     name         |-> p.name]

\* section 4.3
CommissionFee(sell, rate) == RoundTimes(sell, rate)

VatFee(commission, tax_type) ==
    IF tax_type = "taxed" THEN RoundTimes(commission, VatRate) ELSE 0

\* a total that leaves the shipping fee out
TotalCostNoShipping(buy, ship, commission, vat) == buy + commission + vat

TotalCost(buy, ship, commission, vat) == buy + ship + commission + vat

Profit(sell, total) == sell - total

MarginRate(profit, sell) == IF sell > 0 THEN Rat(profit, sell) ELSE Num(0)

\* section 4.4
RequiredProfit(sell, st) == st.min_profit + RoundTimes(sell, st.safety_buffer_rate)

Decide(profit, required) == IF profit >= required THEN "SELL" ELSE "STOP"

Reason(profit, required) ==
    IF profit >= required THEN [text |-> "exceeds", amount |-> profit - required]
    ELSE [text |-> "shortfall", amount |-> required - profit]

\* one evaluation of a stored item under the settings st
Evaluate(it, st) ==
    LET rate       == it.commission_rate
        commission == CommissionFee(it.sell_price, rate)
        vat        == VatFee(commission, it.tax_type)
        total      == TotalCost(it.buy_price, it.shipping_fee, commission, vat)
        profit     == Profit(it.sell_price, total)
        required   == RequiredProfit(it.sell_price, st)
    IN  [id              |-> it.id,
         name            |-> it.name,
         url             |-> it.url,
         market          |-> it.market,
         category        |-> it.category,
         tax_type        |-> it.tax_type,
         buy_price       |-> it.buy_price,
         sell_price      |-> it.sell_price,
         shipping_fee    |-> it.shipping_fee,
         commission_rate |-> rate,
         commission_fee  |-> commission,
         vat_fee         |-> vat,
         total_cost      |-> total,
         profit          |-> profit,
         margin_rate     |-> MarginRate(profit, it.sell_price),
         decision        |-> Decide(profit, required),
         reason          |-> Reason(profit, required)]

\* the item the server stores for an accepted request
StoredItem(p, id) ==
    LET q == Normalize(p)
    IN  [id              |-> id,
         name            |-> q.name,
         url             |-> q.url,
         market          |-> q.market,
         category        |-> q.category,
         tax_type        |-> q.tax_type,
         buy_price       |-> q.buy_price,
         sell_price      |-> q.sell_price,
         shipping_fee    |-> q.shipping_fee,
         commission_rate |-> resolveCommissionRate(q.market, q.category)]

\* GET /api/admin/items: every stored item, evaluated under the settings
\* the server holds now
ServerRows(srv) == [i \in 1..Len(srv.items) |-> Evaluate(srv.items[i], srv.settings)]

\* POST /api/admin/set-settings accepts an integer min_profit and a
\* safety_buffer_rate >= 0
ValidSettings(b) ==
    /\ IsInt(b.min_profit)
    /\ IsNum(b.safety_buffer_rate)
    /\ b.safety_buffer_rate.n >= 0

(***************************************************************************)
(* State.                                                                  *)
(***************************************************************************)
VARIABLES
    page,       \* the script the page runs: "admin" (admin.js), "dashboard"
                \* (admin_dashboard.js) or "code" (code.html with common.js)
    focus,      \* the part of the page the user works with in this run
    location,   \* "here", or where the page has navigated to
    session,    \* what auth.getSession yields: "none", "notoken" or "ok"
    storage,    \* localStorage: [role]
    dom,        \* the page's elements
    server,     \* the server: [settings, items]
    calls,      \* the handler invocations in flight: a bag of calls
    add_failed, \* whether an evaluation has failed so far
    auth        \* common.js module state and the callers of getSupabase

vars == <<page, focus, location, session, storage, dom, server, calls, add_failed, auth>>

\* room for one more invocation
HasRoom == BagCardinality(calls) < MaxInFlight

Pending == BagToSet(calls)

\* the calls in flight without c, and with c replaced by c2
Drop(c) == calls (-) SetToBag({c})

Replace(c, c2) == (calls (-) SetToBag({c})) (+) SetToBag({c2})

Markets == <<"m1", "m2">>

\* the category list the server holds for a market
Categories(m) ==
    CASE m = "m1" -> <<"c1", "c2">>
      [] m = "m2" -> <<"c3">>
      [] OTHER    -> <<>>

\* element.value of a select: its first option, "" when it has none
SelectValue(opts) == IF opts = <<>> THEN "" ELSE opts[1]

\* assigning select.value: an option of the select, or nothing selected
HasOption(opts, v) == \E i \in 1..Len(opts) : opts[i] = v

(***************************************************************************)
(* common.js: session and token.                                           *)
(***************************************************************************)
\* session?.access_token
AccessToken(sess) == IF sess = "ok" THEN "tok" ELSE ""

\* getSessionOrGoLogin: throws (after location.href = "/login") without a session
getSessionOrGoLogin(sess) == [ok |-> sess # "none", session |-> sess]

\* a token guard that hands out whatever the session holds
TokenUnchecked(sess) ==
    [ok |-> getSessionOrGoLogin(sess).ok, token |-> AccessToken(sess)]

\* getAccessTokenOrThrow: throws (after location.href = "/login") without a
\* session or without a token in it
getAccessTokenOrThrow(sess) ==
    LET s == getSessionOrGoLogin(sess)
    IN  IF ~s.ok THEN [ok |-> FALSE, token |-> ""]
        ELSE IF AccessToken(s.session) = "" THEN [ok |-> FALSE, token |-> ""]
        ELSE [ok |-> TRUE, token |-> AccessToken(s.session)]

\* A handler's first statement is "await getAccessTokenOrThrow()" (in
\* verifyAccessCode a few statements come before it); the call waits for its
\* token, then runs up to its fetch.  wrote tells whether the handler has
\* changed an element of the page before it asked for the token.
Call(op, k, arg, wrote) ==
    [op |-> op, pc |-> "token", k |-> k, token |-> "", arg |-> arg, wrote |-> wrote]

\* a handler called from the page
Start(op, k, arg) ==
    /\ calls' = calls (+) SetToBag({Call(op, k, arg, FALSE)})
    /\ location' = location

\* a handler called by the pending call c, which awaits it
Chain(c, op, k, arg) ==
    /\ calls' = Replace(c, Call(op, k, arg, FALSE))
    /\ location' = location

InFlight(c, op, pc) == c.op = op /\ c.pc = pc

(***************************************************************************)
(* Rendering helpers of admin.js.                                          *)
(***************************************************************************)
\* fmt(n)
fmt(n) == IF ~IsNum(n) THEN <<"-">> ELSE NumToStr(n)

\* a colour test that has the comparison the wrong way round
decColorInverted(dec) == IF dec # "SELL" THEN "green" ELSE "red"

\* decColor(dec), colorDecision(decision)
decColor(dec) == IF dec = "SELL" THEN "green" ELSE "red"

RoundHalfAway(a, d) == IF a >= 0 THEN RoundHalfUp(a, d) ELSE -RoundHalfUp(-a, d)

\* Number(x).toFixed(k): x rounded to k decimals
toFixed(x, k) == IF ~IsNum(x) THEN NaN ELSE Rat(RoundHalfAway(x.n * Pow10(k), x.d), Pow10(k))

\* element.textContent = text
SetText(old, new) == new

EmptyText == [kind |-> "empty"]

NoArg == [none |-> TRUE]

Zero == <<"0">>

(***************************************************************************)
(* addItem                                                                 *)
(***************************************************************************)
\* the payload object addItem builds from the form; admin_dashboard.js sends
\* neither name nor category (written here as empty)
BuildPayload(d, pg) ==
    [url          |-> trim(d.url),
     name         |-> IF pg = "admin" THEN trim(d.name) ELSE <<>>,
     market       |-> d.market,
     category     |-> IF pg = "admin" THEN SelectValue(d.categories) ELSE "",
     tax_type     |-> d.tax_type,
     buy_price    |-> parseInt(OrElse(d.buy_price, Zero)),
     sell_price   |-> parseInt(OrElse(d.sell_price, Zero)),
     shipping_fee |-> parseInt(OrElse(d.shipping_fee, Zero))]

\* JSON.stringify(payload), as the server reads it
JsonBody(p) ==
    [p EXCEPT !.buy_price    = JsonNumber(p.buy_price),
              !.sell_price   = JsonNumber(p.sell_price),
              !.shipping_fee = JsonNumber(p.shipping_fee)]

\* the "saved" line addItem writes for data.item
RenderAdded(it, pg) ==
    IF pg = "admin"
    THEN [kind           |-> "saved",
          decision       |-> it.decision,
          profit         |-> NumToStr(Num(it.profit)),
          margin_rate    |-> toFixed(it.margin_rate, 4),
          total_cost     |-> NumToStr(Num(it.total_cost)),
          commission_fee |-> NumToStr(Num(it.commission_fee)),
          vat_fee        |-> NumToStr(Num(it.vat_fee))]
    ELSE [kind           |-> "saved",
          decision       |-> it.decision,
          profit         |-> NumToStr(Num(it.profit)),
          commission_fee |-> NumToStr(Num(it.commission_fee)),
          vat_fee        |-> NumToStr(Num(it.vat_fee))]

\* the failure line: the response text, or the stock hint when it is empty
RenderAddFailed(t) == [kind |-> "fail", text |-> IF t = "" THEN "check-input" ELSE t]

\* an "add" button that is dead once an evaluation has failed
addItemOnce ==
    /\ ~add_failed
    /\ location = "here"
    /\ page \in {"admin", "dashboard"}
    /\ Len(server.items) < MaxItems
    /\ HasRoom
    /\ Start("addItem", "", NoArg)
    /\ UNCHANGED <<page, focus, session, storage, dom, server, add_failed, auth>>

\* the user presses "add"
addItem ==
    /\ location = "here"
    /\ page \in {"admin", "dashboard"}
    /\ Len(server.items) < MaxItems
    /\ HasRoom
    /\ Start("addItem", "", NoArg)
    /\ UNCHANGED <<page, focus, session, storage, dom, server, add_failed, auth>>

\* The response to POST /api/admin/items is not OK.  The handler empties the
\* message (admin.js), awaits the body and writes the message; nothing else
\* writes add_msg in between but another addItem, which ends with its own
\* message, so the three are taken as one step.
addItem_failed(c) ==
    /\ location = "here"
    /\ InFlight(c, "addItem", "fetch")
    /\ LET body    == JsonBody(c.arg)
           t       == IF InvalidInput(body) THEN "InvalidInput" ELSE ""
           cleared == IF page = "admin" THEN SetText(dom.add_msg, EmptyText) ELSE dom.add_msg
       IN  dom' = [dom EXCEPT !.add_msg = SetText(cleared, RenderAddFailed(t))]
    /\ calls' = Drop(c)
    /\ add_failed' = TRUE
    /\ UNCHANGED <<page, focus, location, session, storage, server, auth>>

\* the response is OK: the server has stored and evaluated the item; the
\* handler shows it and goes on to loadItems
addItem_saved(c) ==
    /\ location = "here"
    /\ InFlight(c, "addItem", "fetch")
    /\ LET body    == JsonBody(c.arg)
           stored  == StoredItem(body, Len(server.items) + 1)
           it      == Evaluate(stored, server.settings)
           cleared == IF page = "admin" THEN SetText(dom.add_msg, EmptyText) ELSE dom.add_msg
           shown   == [dom EXCEPT !.add_msg = SetText(cleared, RenderAdded(it, page))]
       IN  /\ ~InvalidInput(body)
           /\ InRate(stored.commission_rate)
           /\ server' = [server EXCEPT !.items = Append(@, stored)]
           /\ dom' = IF page = "admin" THEN shown
                     ELSE [shown EXCEPT !.url = <<>>, !.buy_price = <<>>,
                                        !.sell_price = <<>>, !.shipping_fee = Zero]
    /\ Chain(c, "loadItems", "", NoArg)
    /\ UNCHANGED <<page, focus, session, storage, add_failed, auth>>

(***************************************************************************)
(* loadItems                                                               *)
(***************************************************************************)
\* one row of the list, as the template writes it
RenderRow(it, pg) ==
    IF pg = "admin"
    THEN [id              |-> it.id,
          name            |-> it.name,
          market          |-> it.market,
          category        |-> it.category,
          tax_type        |-> it.tax_type,
          buy_price       |-> fmt(Num(it.buy_price)),
          sell_price      |-> fmt(Num(it.sell_price)),
          shipping_fee    |-> fmt(Num(it.shipping_fee)),
          color           |-> decColor(it.decision),
          decision        |-> it.decision,
          profit          |-> fmt(Num(it.profit)),
          margin_rate     |-> toFixed(it.margin_rate, 4),
          total_cost      |-> fmt(Num(it.total_cost)),
          commission_rate |-> toFixed(it.commission_rate, 6),
          commission_fee  |-> fmt(Num(it.commission_fee)),
          vat_fee         |-> fmt(Num(it.vat_fee)),
          reason          |-> it.reason,
          url             |-> it.url]
    ELSE [id              |-> it.id,
          market          |-> it.market,
          tax_type        |-> it.tax_type,
          url             |-> it.url,
          buy_price       |-> NumToStr(Num(it.buy_price)),
          sell_price      |-> NumToStr(Num(it.sell_price)),
          shipping_fee    |-> NumToStr(Num(it.shipping_fee)),
          color           |-> decColor(it.decision),
          decision        |-> it.decision,
          profit          |-> NumToStr(Num(it.profit)),
          commission_rate |-> toFixed(it.commission_rate, 4),
          commission_fee  |-> NumToStr(Num(it.commission_fee)),
          vat_fee         |-> NumToStr(Num(it.vat_fee)),
          reason          |-> it.reason]

RenderRows(rows, pg) == [kind |-> "rows", rows |-> [i \in 1..Len(rows) |-> RenderRow(rows[i], pg)]]

\* window.loadItems, called from the page
loadItems ==
    /\ location = "here"
    /\ page \in {"admin", "dashboard"}
    /\ HasRoom
    /\ Start("loadItems", "", NoArg)
    /\ UNCHANGED <<page, focus, session, storage, dom, server, add_failed, auth>>

\* the response to GET /api/admin/items
loadItems_resp(c) ==
    /\ location = "here"
    /\ InFlight(c, "loadItems", "fetch")
    /\ \E ok \in BOOLEAN :
          dom' = [dom EXCEPT !.items =
                     IF ok THEN RenderRows(ServerRows(server), page) ELSE [kind |-> "error"]]
    /\ calls' = Drop(c)
    /\ UNCHANGED <<page, focus, location, session, storage, server, add_failed, auth>>

(***************************************************************************)
(* loadSettings, saveSettings                                              *)
(***************************************************************************)
DefaultMinProfit == <<"5", "0", "0">>

DefaultBufferRate == <<"0", ".", "0", "1">>

\* the body saveSettings posts
SettingsPayload(d) ==
    [min_profit         |-> parseInt(OrElse(d.min_profit, DefaultMinProfit)),
     safety_buffer_rate |-> parseFloat(OrElse(d.safety_buffer_rate, DefaultBufferRate))]

JsonSettings(b) ==
    [min_profit         |-> JsonNumber(b.min_profit),
     safety_buffer_rate |-> JsonNumber(b.safety_buffer_rate)]

\* what follows loadSettings in initAdmin: admin.js loads the categories of
\* the selected market, admin_dashboard.js goes straight to the items
AfterSettings(c, d) ==
    IF c.k = "initAdmin"
    THEN IF page = "admin"
         THEN Chain(c, "loadCategories", "initAdmin", [market |-> d.market, name_guess |-> <<>>])
         ELSE Chain(c, "loadItems", "initAdmin", NoArg)
    ELSE calls' = Drop(c) /\ location' = location

\* the response to GET /api/admin/settings
loadSettings_resp(c) ==
    /\ location = "here"
    /\ InFlight(c, "loadSettings", "fetch")
    /\ \E ok \in BOOLEAN :
          LET cleared == [dom EXCEPT !.settings_msg = SetText(@, EmptyText)]
              d == IF ok
                   THEN [cleared EXCEPT
                           !.min_profit = NumToStr(Num(server.settings.min_profit)),
                           !.safety_buffer_rate = NumToStr(server.settings.safety_buffer_rate)]
                   ELSE [cleared EXCEPT !.settings_msg = SetText(@, [kind |-> "load-failed"])]
          IN  dom' = d /\ AfterSettings(c, d)
    /\ UNCHANGED <<page, focus, session, storage, server, add_failed, auth>>

\* the user presses "save settings"
saveSettings ==
    /\ location = "here"
    /\ page \in {"admin", "dashboard"}
    /\ HasRoom
    /\ Start("saveSettings", "", NoArg)
    /\ UNCHANGED <<page, focus, session, storage, dom, server, add_failed, auth>>

\* the response to POST /api/admin/set-settings is not OK
saveSettings_failed(c) ==
    /\ location = "here"
    /\ InFlight(c, "saveSettings", "fetch")
    /\ dom' = [dom EXCEPT !.settings_msg = SetText(@, [kind |-> "save-failed"])]
    /\ calls' = Drop(c)
    /\ UNCHANGED <<page, focus, location, session, storage, server, add_failed, auth>>

\* what saveSettings does after "saved": admin_dashboard.js reloads the items
AfterSaved(c) ==
    IF page = "dashboard"
    THEN Chain(c, "loadItems", "", NoArg)
    ELSE calls' = Drop(c) /\ location' = location

\* the response is OK: the server holds the new settings
saveSettings_saved(c) ==
    /\ location = "here"
    /\ InFlight(c, "saveSettings", "fetch")
    /\ LET b == JsonSettings(c.arg)
       IN  /\ ValidSettings(b)
           /\ server' = [server EXCEPT !.settings =
                  [min_profit |-> b.min_profit.n, safety_buffer_rate |-> b.safety_buffer_rate]]
    /\ dom' = [dom EXCEPT !.settings_msg = SetText(@, [kind |-> "saved"])]
    /\ AfterSaved(c)
    /\ UNCHANGED <<page, focus, session, storage, add_failed, auth>>

(***************************************************************************)
(* loadCategories, the market selector, analyzeUrl                         *)
(***************************************************************************)
Unknown == <<"unknown">>

\* data.categories || ["unknown"]: only a missing list is falsy
CategoriesOrUnknown(body) == IF body.missing THEN Unknown ELSE body.list

\* the bodies /api/admin/fee-categories answers with
CategoryBodies(m) ==
    {[missing |-> FALSE, list |-> Categories(m)],
     [missing |-> FALSE, list |-> <<>>],
     [missing |-> TRUE, list |-> <<>>]}

\* what follows loadCategories in its caller
AfterCategories(c, d) ==
    IF c.k = "initAdmin"
    THEN dom' = d /\ Chain(c, "loadItems", "initAdmin", NoArg)
    ELSE /\ calls' = Drop(c)
         /\ location' = location
         /\ dom' = IF c.k = "analyzeUrl" /\ c.arg.name_guess # <<>>
                   THEN [d EXCEPT !.name = c.arg.name_guess]
                   ELSE d

\* the change event of the market selector
changeMarket ==
    /\ location = "here"
    /\ page = "admin"
    /\ dom.listening
    /\ HasRoom
    /\ \E j \in 1..Len(dom.markets) :
          /\ dom.markets[j] # dom.market
          /\ dom' = [dom EXCEPT !.market = dom.markets[j]]
          /\ Start("loadCategories", "", [market |-> dom.markets[j], name_guess |-> <<>>])
    /\ UNCHANGED <<page, focus, session, storage, server, add_failed, auth>>

\* the response to GET /api/admin/fee-categories is not OK: the select is
\* emptied and gets the fallback option
loadCategories_failed(c) ==
    /\ location = "here"
    /\ InFlight(c, "loadCategories", "fetch")
    /\ AfterCategories(c, [dom EXCEPT !.categories = Unknown])
    /\ UNCHANGED <<page, focus, session, storage, server, add_failed, auth>>

\* the response is OK: the select is emptied, then the body is awaited
loadCategories_resp(c) ==
    /\ location = "here"
    /\ InFlight(c, "loadCategories", "fetch")
    /\ dom' = [dom EXCEPT !.categories = <<>>]
    /\ calls' = Replace(c, [c EXCEPT !.pc = "json"])
    /\ UNCHANGED <<page, focus, location, session, storage, server, add_failed, auth>>

\* the body has arrived: its options are appended to the select
loadCategories_json(c) ==
    /\ location = "here"
    /\ InFlight(c, "loadCategories", "json")
    /\ \E body \in CategoryBodies(c.arg.market) :
          AfterCategories(c, [dom EXCEPT !.categories = @ \o CategoriesOrUnknown(body)])
    /\ UNCHANGED <<page, focus, session, storage, server, add_failed, auth>>

\* the user presses "analyze"
analyzeUrl ==
    /\ location = "here"
    /\ page = "admin"
    /\ HasRoom
    /\ Start("analyzeUrl", "", NoArg)
    /\ UNCHANGED <<page, focus, session, storage, dom, server, add_failed, auth>>

\* the response to POST /api/admin/analyze-url is not OK
analyzeUrl_failed(c) ==
    /\ location = "here"
    /\ InFlight(c, "analyzeUrl", "fetch")
    /\ dom' = [dom EXCEPT !.analyze_msg = SetText(@, [kind |-> "analyze-failed"])]
    /\ calls' = Drop(c)
    /\ UNCHANGED <<page, focus, location, session, storage, server, add_failed, auth>>

NameGuesses == {<<>>, <<"n">>}

\* the response is OK: the detected market is selected and its categories
\* are loaded; the name is filled in afterwards
analyzeUrl_resp(c) ==
    /\ location = "here"
    /\ InFlight(c, "analyzeUrl", "fetch")
    /\ \E j \in 1..Len(Markets), g \in NameGuesses :
          /\ dom' = [dom EXCEPT
                       !.analyze_msg = SetText(@, [kind |-> "analyzed", market |-> Markets[j],
                                                   name |-> g # <<>>]),
                       !.market = IF HasOption(dom.markets, Markets[j]) THEN Markets[j] ELSE ""]
          /\ Chain(c, "loadCategories", "analyzeUrl", [market |-> Markets[j], name_guess |-> g])
    /\ UNCHANGED <<page, focus, session, storage, server, add_failed, auth>>

(***************************************************************************)
(* initAdmin, loadDashboard, generateAccessCode                            *)
(***************************************************************************)
\* initAdmin up to its first await: without a session it goes to /login,
\* otherwise it names the user and asks for the public configuration
initAdmin_session(c) ==
    /\ location = "here"
    /\ InFlight(c, "initAdmin", "session")
    /\ IF getSessionOrGoLogin(session).ok
       THEN /\ dom' = [dom EXCEPT !.who = "user"]
            /\ calls' = Replace(c, [c EXCEPT !.pc = "config"])
            /\ location' = location
       ELSE /\ dom' = dom
            /\ calls' = Drop(c)
            /\ location' = "/login"
    /\ UNCHANGED <<page, focus, session, storage, server, add_failed, auth>>

\* the configuration has arrived: the markets are listed (admin.js also
\* listens to the selector), then loadSettings is called
initAdmin_config(c) ==
    /\ location = "here"
    /\ InFlight(c, "initAdmin", "config")
    /\ dom' = [dom EXCEPT !.markets = Markets, !.market = SelectValue(Markets),
                          !.listening = (page = "admin")]
    /\ Chain(c, "loadSettings", "initAdmin", NoArg)
    /\ UNCHANGED <<page, focus, session, storage, server, add_failed, auth>>

\* what GET /api/admin/dashboard answers
DashboardData(srv) ==
    LET rows == ServerRows(srv)
    IN  [min_profit         |-> srv.settings.min_profit,
         safety_buffer_rate |-> srv.settings.safety_buffer_rate,
         total              |-> Len(rows),
         sell               |-> Cardinality({j \in 1..Len(rows) : rows[j].decision = "SELL"}),
         stop               |-> Cardinality({j \in 1..Len(rows) : rows[j].decision # "SELL"}),
         items              |-> rows]

RenderDashboard(data) ==
    [kind  |-> "dashboard",
     rule  |-> <<NumToStr(Num(data.min_profit)), NumToStr(data.safety_buffer_rate)>>,
     total |-> NumToStr(Num(data.total)),
     sell  |-> NumToStr(Num(data.sell)),
     stop  |-> NumToStr(Num(data.stop)),
     rows  |-> [j \in 1..Len(data.items) |->
                  [id       |-> data.items[j].id,
                   market   |-> data.items[j].market,
                   tax_type |-> data.items[j].tax_type,
                   profit   |-> NumToStr(Num(data.items[j].profit)),
                   color    |-> IF data.items[j].decision = "SELL" THEN "green" ELSE "red",
                   decision |-> data.items[j].decision,
                   reason   |-> data.items[j].reason,
                   url      |-> data.items[j].url]]]

\* the response to GET /api/admin/dashboard; a failure only raises an alert
loadDashboard_resp(c) ==
    /\ location = "here"
    /\ InFlight(c, "loadDashboard", "fetch")
    /\ \E ok \in BOOLEAN :
          dom' = IF ok THEN [dom EXCEPT !.dashboard = RenderDashboard(DashboardData(server))]
                 ELSE dom
    /\ calls' = Drop(c)
    /\ UNCHANGED <<page, focus, location, session, storage, server, add_failed, auth>>

Roles == {"admin", "user"}

\* the user presses "generate access code"
generateAccessCode ==
    /\ location = "here"
    /\ page = "admin"
    /\ HasRoom
    /\ Start("generateAccessCode", "", NoArg)
    /\ UNCHANGED <<page, focus, session, storage, dom, server, add_failed, auth>>

\* the response to POST /api/admin/generate-access-code
generateAccessCode_resp(c) ==
    /\ location = "here"
    /\ InFlight(c, "generateAccessCode", "fetch")
    /\ \E ok \in BOOLEAN :
          dom' = [dom EXCEPT !.gen_code =
                     SetText(SetText(@, EmptyText),
                             IF ok THEN [kind |-> "issued", role |-> c.arg.role]
                             ELSE [kind |-> "issue-failed"])]
    /\ calls' = Drop(c)
    /\ UNCHANGED <<page, focus, location, session, storage, server, add_failed, auth>>

(***************************************************************************)
(* From the token to the fetch.                                            *)
(***************************************************************************)
\* What a handler does between "await getAccessTokenOrThrow()" and its
\* fetch: addItem and saveSettings read the form, generateAccessCode reads
\* the role r selected, analyzeUrl empties its message and stops with a hint
\* when there is no URL; the others go straight to their fetch.
BeforeFetch(c, r) ==
    CASE c.op = "addItem" ->
           [arg |-> BuildPayload(dom, page), dom |-> dom, fetch |-> TRUE]
      [] c.op = "saveSettings" ->
           [arg |-> SettingsPayload(dom), dom |-> dom, fetch |-> TRUE]
      [] c.op = "generateAccessCode" ->
           [arg |-> [role |-> r], dom |-> dom, fetch |-> TRUE]
      [] c.op = "analyzeUrl" ->
           LET cleared == [dom EXCEPT !.analyze_msg = SetText(@, EmptyText)]
           IN  IF trim(dom.url) = <<>>
               THEN [arg |-> c.arg, fetch |-> FALSE,
                     dom |-> [cleared EXCEPT !.analyze_msg =
                                               SetText(@, [kind |-> "need-url"])]]
               ELSE [arg |-> [url |-> trim(dom.url)], dom |-> cleared, fetch |-> TRUE]
      [] OTHER -> [arg |-> c.arg, dom |-> dom, fetch |-> TRUE]

\* getAccessTokenOrThrow has settled for the call c: without a token the page
\* goes to /login and the handler is over, with one the handler runs up to
\* its fetch
resumeWithToken(c) ==
    /\ location = "here"
    /\ c.pc = "token"
    /\ LET t == getAccessTokenOrThrow(session)
       IN  IF ~t.ok
           THEN /\ location' = "/login"
                /\ calls' = Drop(c)
                /\ dom' = dom
           ELSE \E r \in Roles :
                   LET b == BeforeFetch(c, r)
                   IN  /\ location' = location
                       /\ dom' = b.dom
                       /\ calls' = IF b.fetch
                                   THEN Replace(c, [c EXCEPT !.pc = "fetch", !.token = t.token,
                                                             !.arg = b.arg])
                                   ELSE Drop(c)
    /\ UNCHANGED <<page, focus, session, storage, server, add_failed, auth>>

(***************************************************************************)
(* code.html: verifyAccessCode                                             *)
(***************************************************************************)
\* the user presses "verify": the message is cleared, an empty code only
\* gets a hint, and the token is asked for after that
verifyAccessCode ==
    /\ location = "here"
    /\ page = "code"
    /\ LET cleared == [dom EXCEPT !.msg = SetText(@, EmptyText)]
       IN  IF trim(dom.access_code) = <<>>
           THEN /\ dom' = [cleared EXCEPT !.msg = SetText(@, [kind |-> "need-code"])]
                /\ UNCHANGED <<calls, location>>
           ELSE /\ dom' = cleared
                /\ HasRoom
                /\ calls' = calls (+) SetToBag({Call("verifyAccessCode", "",
                                                     [code |-> trim(dom.access_code)],
                                                     cleared # dom)})
                /\ location' = location
    /\ UNCHANGED <<page, focus, session, storage, server, add_failed, auth>>

\* the response to POST /api/verify-access-code is not OK
verifyAccessCode_failed(c) ==
    /\ location = "here"
    /\ InFlight(c, "verifyAccessCode", "fetch")
    /\ dom' = [dom EXCEPT !.msg = SetText(@, [kind |-> "verify-failed"])]
    /\ calls' = Drop(c)
    /\ UNCHANGED <<page, focus, location, session, storage, server, add_failed, auth>>

\* the response is OK: the role is stored and the page moves on
verifyAccessCode_resp(c) ==
    /\ location = "here"
    /\ InFlight(c, "verifyAccessCode", "fetch")
    /\ \E r \in Roles :
          /\ storage' = [storage EXCEPT !.role = r]
          /\ location' = IF r = "admin" THEN "/admin" ELSE "/user"
    /\ calls' = Drop(c)
    /\ UNCHANGED <<page, focus, session, dom, server, add_failed, auth>>

(***************************************************************************)
(* The user and the session.                                               *)
(***************************************************************************)
\* forms a user fills in on the admin pages: one that is accepted, one
\* whose sell price is no number
FormSamples ==
    {[buy_price |-> <<"2">>, sell_price |-> <<"9">>, shipping_fee |-> <<>>, tax_type |-> "taxed"],
     [buy_price |-> <<"2">>, sell_price |-> <<"a">>, shipping_fee |-> <<>>, tax_type |-> "taxed"]}

typeForm ==
    /\ location = "here"
    /\ page \in {"admin", "dashboard"}
    /\ \E f \in FormSamples :
          dom' = [dom EXCEPT !.buy_price = f.buy_price, !.sell_price = f.sell_price,
                             !.shipping_fee = f.shipping_fee, !.tax_type = f.tax_type]
    /\ UNCHANGED <<page, focus, location, session, storage, server, calls, add_failed, auth>>

\* what a user types into the settings fields
SettingsSamples ==
    {[min_profit |-> <<"1">>, safety_buffer_rate |-> <<"0">>]}

typeSettings ==
    /\ location = "here"
    /\ page \in {"admin", "dashboard"}
    /\ \E f \in SettingsSamples :
          dom' = [dom EXCEPT !.min_profit = f.min_profit,
                             !.safety_buffer_rate = f.safety_buffer_rate]
    /\ UNCHANGED <<page, focus, location, session, storage, server, calls, add_failed, auth>>

UrlSamples == {<<" ">>, <<"u">>}

typeUrl ==
    /\ location = "here"
    /\ page = "admin"
    /\ \E u \in UrlSamples : dom' = [dom EXCEPT !.url = u]
    /\ UNCHANGED <<page, focus, location, session, storage, server, calls, add_failed, auth>>

CodeSamples == {<<>>, <<"k">>}

typeCode ==
    /\ location = "here"
    /\ page = "code"
    /\ \E c \in CodeSamples : dom' = [dom EXCEPT !.access_code = c]
    /\ UNCHANGED <<page, focus, location, session, storage, server, calls, add_failed, auth>>

\* the session ends (sign-out elsewhere, expiry)
SessionEnds ==
    /\ location = "here"
    /\ session = "ok"
    /\ session' = "none"
    /\ UNCHANGED <<page, focus, location, storage, dom, server, calls, add_failed, auth>>

(***************************************************************************)
(* Initial states.                                                         *)
(***************************************************************************)
\* the page as its HTML delivers it: empty inputs, empty selects
DomInit ==
    [who                |-> "",
     markets            |-> <<>>,
     market             |-> "",
     listening          |-> FALSE,
     categories         |-> <<>>,
     url                |-> <<>>,
     name               |-> <<>>,
     tax_type           |-> "taxed",
     buy_price          |-> <<>>,
     sell_price         |-> <<>>,
     shipping_fee       |-> <<>>,
     min_profit         |-> <<>>,
     safety_buffer_rate |-> <<>>,
     settings_msg       |-> EmptyText,
     add_msg            |-> EmptyText,
     analyze_msg        |-> EmptyText,
     gen_code           |-> EmptyText,
     items              |-> [kind |-> "rows", rows |-> <<>>],
     dashboard          |-> EmptyText,
     access_code        |-> <<>>,
     msg                |-> EmptyText]

\* settings the server may hold: the client's defaults, and small thresholds
ServerSettings ==
    {[min_profit |-> 500, safety_buffer_rate |-> Rat(1, 100)],
     [min_profit |-> 1, safety_buffer_rate |-> Num(0)],
     [min_profit |-> 1, safety_buffer_rate |-> Rat(1, 10)]}

(***************************************************************************)
(* common.js: the auth client.  _cfg and _sb are module variables; each     *)
(* caller of getSupabase runs up to its next await, and the callers'         *)
(* continuations interleave.                                                *)
(***************************************************************************)
Callers == 1..MaxCallers

\* a caller before its call to getSupabase
Waiting == [pc |-> "idle", client |-> 0]

\* common.js as the page loads it: _cfg = null, _sb = null (a client is a
\* positive number, null is 0), and what the page has done so far
AuthIdle ==
    [cfg     |-> FALSE,   \* _cfg is set
     sb      |-> 0,       \* _sb
     lib     |-> FALSE,   \* window.supabase is there
     scripts |-> 0,       \* script elements appended to document.head
     fetched |-> 0,       \* requests for /api/public-config
     created |-> 0,       \* calls of createClient
     callers |-> [i \in Callers |-> Waiting]]

At(i, pc) == auth.callers[i].pc = pc

Goto(i, pc) == [auth.callers EXCEPT ![i].pc = pc]

\* getSupabase up to its first await: "if (_sb) return _sb", else
\* getPublicConfig up to its own await: "if (_cfg) return _cfg", else the fetch
getSupabase(i) ==
    /\ At(i, "idle")
    /\ auth' = IF auth.sb # 0
               THEN [auth EXCEPT !.callers[i] = [pc |-> "done", client |-> auth.sb]]
               ELSE IF auth.cfg
               THEN [auth EXCEPT !.callers = Goto(i, "cfg")]
               ELSE [auth EXCEPT !.fetched = @ + 1, !.callers = Goto(i, "fetch")]
    /\ UNCHANGED <<page, focus, location, session, storage, dom, server, calls, add_failed>>

\* getPublicConfig: the response is there, "await res.json()"
getPublicConfig_resp(i) ==
    /\ At(i, "fetch")
    /\ auth' = [auth EXCEPT !.callers = Goto(i, "json")]
    /\ UNCHANGED <<page, focus, location, session, storage, dom, server, calls, add_failed>>

\* getPublicConfig: "_cfg = await res.json(); return _cfg"
getPublicConfig_json(i) ==
    /\ At(i, "json")
    /\ auth' = [auth EXCEPT !.cfg = TRUE, !.callers = Goto(i, "cfg")]
    /\ UNCHANGED <<page, focus, location, session, storage, dom, server, calls, add_failed>>

\* getSupabase has its cfg and calls ensureSupabaseLoaded, which returns when
\* window.supabase is there and appends a script element when it is not
ensureSupabaseLoaded(i) ==
    /\ At(i, "cfg")
    /\ auth' = IF auth.lib
               THEN [auth EXCEPT !.callers = Goto(i, "create")]
               ELSE [auth EXCEPT !.scripts = @ + 1, !.callers = Goto(i, "script")]
    /\ UNCHANGED <<page, focus, location, session, storage, dom, server, calls, add_failed>>

\* the script's onload resolves the promise
ensureSupabaseLoaded_onload(i) ==
    /\ At(i, "script")
    /\ auth' = [auth EXCEPT !.lib = TRUE, !.callers = Goto(i, "create")]
    /\ UNCHANGED <<page, focus, location, session, storage, dom, server, calls, add_failed>>

\* the script's onerror rejects it, and getSupabase throws
ensureSupabaseLoaded_onerror(i) ==
    /\ At(i, "script")
    /\ auth' = [auth EXCEPT !.callers = Goto(i, "failed")]
    /\ UNCHANGED <<page, focus, location, session, storage, dom, server, calls, add_failed>>

\* "_sb = window.supabase.createClient(...); return _sb": a new client object
createClient(i) ==
    /\ At(i, "create")
    /\ auth' = [auth EXCEPT !.created = @ + 1, !.sb = auth.created + 1,
                            !.callers[i] = [pc |-> "done", client |-> auth.created + 1]]
    /\ UNCHANGED <<page, focus, location, session, storage, dom, server, calls, add_failed>>


\* the calls the scripts make as they are loaded
LoadCalls(pg) ==
    LET init == [Call("initAdmin", "", NoArg, FALSE) EXCEPT !.pc = "session"]
        dash == Call("loadDashboard", "", NoArg, FALSE)
    IN  CASE pg = "admin"     -> SetToBag({init})
          [] pg = "dashboard" -> SetToBag({dash, init})
          [] OTHER            -> EmptyBag

\* the items the server holds when the page is opened: none, or for the
\* dashboard one that was stored through the admin page
StoredBefore(pg) ==
    IF pg = "dashboard"
    THEN {<<>>, <<[id |-> 1, name |-> <<>>, url |-> <<>>, market |-> "m1", category |-> "c1",
                   tax_type |-> "taxed", buy_price |-> 2, sell_price |-> 9,
                   shipping_fee |-> 0, commission_rate |-> resolveCommissionRate("m1", "c1")]>>}
    ELSE {<<>>}

\* the pages, and the parts of each a run works with
Runs ==
    {<<"admin", "items">>, <<"admin", "categories">>, <<"admin", "codes">>,
     <<"dashboard", "items">>, <<"code", "verify">>}

\* a page that has just been loaded
Init ==
    /\ \E r \in Runs : page = r[1] /\ focus = r[2]
    /\ location = "here"
    /\ session \in {"none", "notoken", "ok"}
    /\ storage = [role |-> ""]
    /\ dom = DomInit
    /\ \E its \in StoredBefore(page) :
          server = [settings |-> [min_profit |-> 500, safety_buffer_rate |-> Rat(1, 100)],
                    items    |-> its]
    /\ calls = LoadCalls(page)
    /\ add_failed = FALSE
    /\ auth = AuthIdle

\* what the user does
User ==
    \/ (focus = "items" /\ typeForm)
    \/ (focus = "items" /\ addItem)
    \/ (focus = "items" /\ typeSettings)
    \/ (focus = "items" /\ saveSettings)
    \/ (focus = "items" /\ loadItems)
    \/ (focus = "categories" /\ changeMarket)
    \/ (focus = "categories" /\ typeUrl)
    \/ (focus = "categories" /\ analyzeUrl)
    \/ (focus = "codes" /\ generateAccessCode)
    \/ (focus = "verify" /\ typeCode)
    \/ (focus = "verify" /\ verifyAccessCode)

\* what the pending calls do when their awaits resolve
Resume ==
    \/ \E c \in Pending : addItem_failed(c)
    \/ \E c \in Pending : addItem_saved(c)
    \/ \E c \in Pending : loadItems_resp(c)
    \/ \E c \in Pending : loadSettings_resp(c)
    \/ \E c \in Pending : saveSettings_failed(c)
    \/ \E c \in Pending : saveSettings_saved(c)
    \/ \E c \in Pending : loadCategories_failed(c)
    \/ \E c \in Pending : loadCategories_resp(c)
    \/ \E c \in Pending : loadCategories_json(c)
    \/ \E c \in Pending : analyzeUrl_failed(c)
    \/ \E c \in Pending : analyzeUrl_resp(c)
    \/ \E c \in Pending : initAdmin_session(c)
    \/ \E c \in Pending : initAdmin_config(c)
    \/ \E c \in Pending : resumeWithToken(c)
    \/ \E c \in Pending : loadDashboard_resp(c)
    \/ \E c \in Pending : generateAccessCode_resp(c)
    \/ \E c \in Pending : verifyAccessCode_failed(c)
    \/ \E c \in Pending : verifyAccessCode_resp(c)

Next == User \/ Resume \/ SessionEnds

Spec == Init /\ [][Next]_vars

\* The admin page after initAdmin has run, with the form filled in: every
\* text of up to MaxLen characters in each price field.
EvalInit ==
    /\ page \in {"admin", "dashboard"}
    /\ focus = "items"
    /\ location = "here"
    /\ session = "ok"
    /\ storage = [role |-> ""]
    /\ \E j \in 1..Len(Markets), tx \in TaxTypes,
          b \in RawInputs, sl \in RawInputs, sh \in ShippingInputs :
          dom = [DomInit EXCEPT !.who = "user", !.markets = Markets, !.market = Markets[j],
                                !.listening = (page = "admin"),
                                !.categories = IF page = "admin" THEN Categories(Markets[j])
                                               ELSE <<>>,
                                !.tax_type = tx, !.buy_price = b,
                                !.sell_price = sl, !.shipping_fee = sh]
    /\ \E st \in ServerSettings : server = [settings |-> st, items |-> <<>>]
    /\ calls = EmptyBag
    /\ add_failed = FALSE
    /\ auth = AuthIdle

\* one evaluation of the form
EvalNext ==
    \/ (dom.add_msg = EmptyText /\ calls = EmptyBag /\ addItem)
    \/ \E c \in Pending : resumeWithToken(c)
    \/ \E c \in Pending : addItem_failed(c)
    \/ \E c \in Pending : addItem_saved(c)
    \/ \E c \in Pending : loadItems_resp(c)

SpecEval == EvalInit /\ [][EvalNext]_vars

\* A page whose handlers are about to call getSupabase: loadDashboard() and
\* initAdmin() both run as admin_dashboard.js is loaded, and the user's
\* clicks add callers.  The supabase library may be on the page already.
AuthInit ==
    /\ page = "dashboard"
    /\ focus = "items"
    /\ location = "here"
    /\ session = "ok"
    /\ storage = [role |-> ""]
    /\ dom = DomInit
    /\ server = [settings |-> [min_profit |-> 500, safety_buffer_rate |-> Rat(1, 100)],
                 items    |-> <<>>]
    /\ calls = EmptyBag
    /\ add_failed = FALSE
    /\ \E l \in BOOLEAN : auth = [AuthIdle EXCEPT !.lib = l]

AuthNext ==
    \/ \E i \in Callers : getSupabase(i)
    \/ \E i \in Callers : getPublicConfig_resp(i)
    \/ \E i \in Callers : getPublicConfig_json(i)
    \/ \E i \in Callers : ensureSupabaseLoaded(i)
    \/ \E i \in Callers : ensureSupabaseLoaded_onload(i)
    \/ \E i \in Callers : ensureSupabaseLoaded_onerror(i)
    \/ \E i \in Callers : createClient(i)

SpecAuth == AuthInit /\ [][AuthNext]_vars

(***************************************************************************)
(* Properties of one evaluation (SpecEval).                                *)
(***************************************************************************)
\* the text is a whole number: an optional minus sign, then digits only
NumericText(s) ==
    LET ds == IF s # <<>> /\ Head(s) = "-" THEN Tail(s) ELSE s
    IN  ds # <<>> /\ \A i \in 1..Len(ds) : IsDigit(ds[i])

NegativeText(s) == NumericText(s) /\ Head(s) = "-"

\* a required price that is absent, negative or no number
BadPriceText(s) == s = <<>> \/ ~NumericText(s) \/ NegativeText(s)

\* the requests addItem has sent and that are not answered yet
AddRequests == {c \in Pending : InFlight(c, "addItem", "fetch")}

\* the number a text of the page shows
Shown(s) == parseFloat(s)

\* C1: a request that addItem builds from a form whose buy_price or
\* sell_price is absent, negative or not a number is rejected with
\* InvalidInput, so that no result is produced for it; an absent price does
\* not reach the engine as 0.
C1_BadPriceRejected ==
    \A c \in AddRequests :
        (BadPriceText(dom.buy_price) \/ BadPriceText(dom.sell_price))
            => InvalidInput(JsonBody(c.arg))

\* C2: the shipping_fee addItem places in the request is a non-negative
\* integer, and it is 0 when the field is empty or holds no number.
C2_ShippingNormalized ==
    \A c \in AddRequests :
        /\ ValidPrice(c.arg.shipping_fee)
        /\ (dom.shipping_fee = <<>> \/ ~NumericText(dom.shipping_fee))
               => c.arg.shipping_fee = Num(0)

\* the amounts a row of the item list shows, as numbers
RowAmounts(r) ==
    [buy        |-> Shown(r.buy_price),
     sell       |-> Shown(r.sell_price),
     ship       |-> Shown(r.shipping_fee),
     commission |-> Shown(r.commission_fee),
     vat        |-> Shown(r.vat_fee),
     profit     |-> Shown(r.profit)]

ShownRows == IF dom.items.kind = "rows" THEN dom.items.rows ELSE <<>>

\* C3: in every result shown, total_cost = buy_price + shipping_fee +
\* commission_fee + vat_fee and profit = sell_price - total_cost, all of them
\* integers; the profit may be negative.  The rows of the list show every
\* amount; the "saved" line of admin.js shows the result of the form.
C3_CostIdentity ==
    /\ \A i \in 1..Len(ShownRows) :
          LET r     == ShownRows[i]
              a     == RowAmounts(r)
              costs == a.buy.n + a.ship.n + a.commission.n + a.vat.n
          IN  /\ IsInt(a.buy) /\ IsInt(a.sell) /\ IsInt(a.ship)
              /\ IsInt(a.commission) /\ IsInt(a.vat) /\ IsInt(a.profit)
              /\ page = "admin" => Shown(r.total_cost) = Num(costs)
              /\ a.profit.n = a.sell.n - costs
    /\ (page = "admin" /\ dom.add_msg.kind = "saved") =>
          LET req   == Normalize(JsonBody(BuildPayload(dom, page)))
              m     == dom.add_msg
              total == Shown(m.total_cost)
          IN  /\ IsInt(total) /\ IsInt(Shown(m.profit))
              /\ IsInt(Shown(m.commission_fee)) /\ IsInt(Shown(m.vat_fee))
              /\ total.n = req.buy_price + req.shipping_fee
                             + Shown(m.commission_fee).n + Shown(m.vat_fee).n
              /\ Shown(m.profit).n = req.sell_price - total.n

\* a row with shipping, commission and VAT to pay, and a loss
C3_Witness ==
    /\ page = "admin"
    /\ \E i \in 1..Len(ShownRows) :
          LET a == RowAmounts(ShownRows[i])
          IN  a.ship.n > 0 /\ a.commission.n > 0 /\ a.vat.n > 0 /\ a.profit.n < 0

\* min_profit + round(sell_price * safety_buffer_rate) under the settings the
\* server holds
Threshold(sell) ==
    LET st == server.settings
    IN  st.min_profit
          + (2 * sell * st.safety_buffer_rate.n + st.safety_buffer_rate.d)
              \div (2 * st.safety_buffer_rate.d)

\* C4: every result shown is SELL (green) when its profit is at least
\* required_profit = min_profit + round(sell_price * safety_buffer_rate),
\* STOP (red) when it is less, and nothing else.
C4_Decision ==
    /\ \A i \in 1..Len(ShownRows) :
          LET r    == ShownRows[i]
              a    == RowAmounts(r)
              sell == a.profit.n >= Threshold(a.sell.n)
          IN  /\ r.decision \in {"SELL", "STOP"}
              /\ r.decision = "SELL" <=> sell
              /\ r.color = "green" <=> sell
              /\ r.color \in {"green", "red"}
    /\ (page = "admin" /\ dom.add_msg.kind = "saved") =>
          LET req == Normalize(JsonBody(BuildPayload(dom, page)))
              m   == dom.add_msg
          IN  /\ m.decision \in {"SELL", "STOP"}
              /\ m.decision = "SELL" <=> Shown(m.profit).n >= Threshold(req.sell_price)

\* the boundary: a profit equal to the required profit is shown as SELL
C4_Witness ==
    \E i \in 1..Len(ShownRows) :
        LET r == ShownRows[i]
            a == RowAmounts(r)
        IN  /\ a.profit.n = Threshold(a.sell.n)
            /\ r.decision = "SELL"
            /\ r.color = "green"

(***************************************************************************)
(* Properties of the pages (Spec).                                         *)
(***************************************************************************)
\* the "add" button can be pressed: the page is up and the bounds of the
\* model leave room for one more request and one more item
CanSubmit ==
    /\ location = "here"
    /\ page \in {"admin", "dashboard"}
    /\ Len(server.items) < MaxItems
    /\ HasRoom

\* the item the server has stored last, evaluated under the settings st
LastResult(items, st) == Evaluate(items[Len(items)], st)

\* C5: after evaluations that failed (a rejected input, a response that is
\* not OK) addItem can be submitted as before, and a request that is accepted
\* then shows the result of its own evaluation: the failure has left nothing
\* behind that blocks or changes it.
C5_FailureLeavesNothing ==
    [][/\ (add_failed /\ CanSubmit) => ENABLED addItem
       /\ (add_failed /\ server'.items # server.items) =>
              LET it == LastResult(server'.items, server.settings)
                  m  == dom'.add_msg
              IN  /\ m.kind = "saved"
                  /\ m.decision = it.decision
                  /\ Shown(m.profit) = Num(it.profit)
                  /\ Shown(m.commission_fee) = Num(it.commission_fee)
                  /\ Shown(m.vat_fee) = Num(it.vat_fee)
                  /\ add_failed']_vars

\* an evaluation has failed, and a later one shows its result
C5_Witness ==
    /\ add_failed
    /\ dom.add_msg.kind = "saved"
    /\ Len(server.items) > 0

\* C6: once saveSettings has completed successfully and nothing is in
\* flight, no item of the list is shown with a decision other than the one
\* the settings now held give it.
C6_RowsFollowSettings ==
    (location = "here" /\ dom.settings_msg.kind = "saved" /\ calls = EmptyBag) =>
        \A i \in 1..Len(ShownRows) :
            \A j \in 1..Len(server.items) :
                server.items[j].id = ShownRows[i].id =>
                    ShownRows[i].decision
                        = Evaluate(server.items[j], server.settings).decision

\* the calls of loadCategories that are about to return
Returning(c) == loadCategories_failed(c) \/ loadCategories_json(c)

\* C7: whenever loadCategories returns (the fetch failed, or it answered
\* with or without a list of categories), the category selector holds at
\* least one option, so that addItem finds a category to send.
C7_SelectorNotEmpty ==
    [][\A c \in Pending : Returning(c) => dom'.categories # <<>>]_vars

\* what one call of loadCategories for the market m may leave in the selector
Outcomes(m) == {Unknown} \cup {CategoriesOrUnknown(b) : b \in CategoryBodies(m)}

\* C9: when all calls have finished, the category selector holds what one
\* loadCategories of the selected market leaves there: no options of another
\* market's late response, no two responses one after the other.
C9_SelectorOfMarket ==
    (page = "admin" /\ location = "here" /\ calls = EmptyBag) =>
        dom.categories \in Outcomes(dom.market)

\* the requests that go to /api/admin/* and /api/verify-access-code
Requests(cs) == {c \in BagToSet(cs) : c.pc \in {"fetch", "json"}}

\* a handler gives up and sends the page to /login
Aborts == location = "here" /\ location' = "/login"

\* C10, as stated: no request is in flight without a bearer token, and a
\* handler that goes to /login for want of one has changed neither the
\* page's elements nor localStorage, in this step or before it.
C10_AbortChangesNothing ==
    [][/\ \A c \in Requests(calls') : c.token # ""
       /\ \A c \in Pending :
             (Aborts /\ calls' = Drop(c))
                 => (dom' = dom /\ storage' = storage /\ ~c.wrote)]_vars

\* C10, as the code has it: verifyAccessCode empties its message element
\* before it asks for the token; nothing else is changed by a handler that
\* goes to /login, and no request is in flight without a bearer token.
C10_AbortClearsAtMostMsg ==
    [][/\ \A c \in Requests(calls') : c.token # ""
       /\ \A c \in Pending :
             (Aborts /\ calls' = Drop(c))
                 => /\ dom' = dom
                    /\ storage' = storage
                    /\ c.wrote => c.op = "verifyAccessCode"]_vars

\* verifyAccessCode has sent the page to /login with a code typed in
C10_Witness ==
    /\ page = "code"
    /\ location = "/login"
    /\ trim(dom.access_code) # <<>>
    /\ dom.msg = EmptyText
    /\ calls = EmptyBag
    /\ storage.role = ""

(***************************************************************************)
(* Properties of the auth client (SpecAuth).                               *)
(***************************************************************************)
\* C8: however the callers of getSupabase interleave, createClient is called
\* at most once, /api/public-config is fetched at most once, and all callers
\* get the same client.
C8_OneClient ==
    /\ auth.created <= 1
    /\ auth.fetched <= 1
    /\ \A i, j \in Callers :
          (At(i, "done") /\ At(j, "done"))
              => auth.callers[i].client = auth.callers[j].client

====
